---- MODULE Spec2Model ----
(***************************************************************************)
(* Model of src/src/services/contractService.ts (ContractService):         *)
(* addContracts, the Etherscan fetches, getStatesFromSourceCode,           *)
(* getEventsFromABI and runBackfillService.                                *)
(*                                                                         *)
(* Spec         : one call of addContracts and the life of the backfill    *)
(*                child process it spawns.                                 *)
(* SpecResolver : getStatesFromSourceCode applied to bounded sources.      *)
(*                                                                         *)
(* Model of src/src/server.ts: the bootstrap function run at start-up.     *)
(*                                                                         *)
(* SpecServer   : one run of the bootstrap under every setting of the      *)
(*                four enable flags of env.                                *)
(***************************************************************************)
EXTENDS Integers, Sequences, FiniteSets, TLC

\* ------------------------------------------------------------------ bounds
MaxBatch == 3        \* longest addresses[] argument
MaxExitCode == 1     \* exit codes of the child process: 0..MaxExitCode
MaxLog == 1          \* stdout/stderr chunks the child process emits
MaxDecls == 3        \* state variable declarations in one source document
MaxContracts == 2    \* contract definitions in one source document

\* --------------------------------------------------------------- variables
VARIABLES
    addresses,      \* the addresses argument of addContracts
    pc,             \* position of addContracts
    i,              \* index of the address the for-of loop is at
    success,        \* const success = []
    fail,           \* const fail = []
    contractIds,    \* const contractIds = []
    data,           \* const data (name, abi, sourceCode) of the iteration
    startingBlock,  \* const startingBlock of the iteration
    stateObjects,   \* const stateObjects of the iteration
    eventNames,     \* const eventNames of the iteration
    eventIds,       \* const eventIds of the iteration
    eventStore,     \* rows behind EventRepository: name -> eventId
    contractStore,  \* rows behind ContractRepository, in insertion order
    failedAt,       \* history: per processed address, the stage that threw
    resolved,       \* history: per resolved address, its source and its list
    launches,       \* history: number of childProcess.spawn calls
    spawnArgs,      \* the contract ids given to the spawned process
    task,           \* state of the spawned process
    exitCode,       \* what the 'close' event carried
    future,         \* state of the promise runBackfillService returned
    futureValue,    \* the value it settled with
    logged,         \* stdout/stderr chunks forwarded to console.log
    unhandledRejection, \* a rejection of the future no handler observed
    uncaughtException,  \* an 'error' event emitted with no listener
    rsource,        \* SpecResolver: the parsed source document
    rlist,          \* SpecResolver: the list getStatesFromSourceCode returned
    rpc,            \* SpecResolver: position
    env,            \* SpecServer: the enable flags of ./env
    mpc,            \* SpecServer: position of the bootstrap function
    connection,     \* SpecServer: the promise createConnection returned
    cpc,            \* SpecServer: position of the .then / .catch callback
    receiptCids,    \* SpecServer: subscriptionReceiptCids() was called
    headerCids,     \* SpecServer: subscriptionHeaderCids() was called
    httpServer,     \* SpecServer: the HTTP server was told to listen
    graphqlServer,  \* SpecServer: the Postgraphile server was told to listen
    console,        \* SpecServer: what console.info / console.log printed
    bootstrapRejected \* SpecServer: the promise of the bootstrap rejected

orchVars == <<addresses, pc, i, success, fail, contractIds, data, startingBlock,
              stateObjects, eventNames, eventIds, eventStore, contractStore,
              failedAt, resolved, launches, spawnArgs, task, exitCode, future,
              futureValue, logged, unhandledRejection, uncaughtException>>
resVars == <<rsource, rlist, rpc>>
serverVars == <<env, mpc, connection, cpc, receiptCids, headerCids, httpServer,
                graphqlServer, console, bootstrapRejected>>
vars == <<orchVars, resVars, serverVars>>

\* The bootstrap has not run: the state of the server variables while the
\* other specifications run.
NoEnv ==
    [ENABLE_EVENT_WATCHER |-> FALSE, ENABLE_HEADER_WATCHER |-> FALSE,
     HTTP_ENABLE |-> FALSE, GRAPHQL_SERVER_ENABLE |-> FALSE]

ServerIdle ==
    /\ env = NoEnv
    /\ mpc = "idle"
    /\ connection = "none"
    /\ cpc = "none"
    /\ receiptCids = FALSE
    /\ headerCids = FALSE
    /\ httpServer = FALSE
    /\ graphqlServer = FALSE
    /\ console = <<>>
    /\ bootstrapRejected = FALSE

\* A nullable ABI document: null, or the array JSON.parse returned.
NullAbi == [isNull |-> TRUE, items |-> <<>>]
Abi(items) == [isNull |-> FALSE, items |-> items]

\* ------------------------------------------------------------ small helpers
RECURSIVE SeqsUpTo(_, _)
SeqsUpTo(S, n) ==
    IF n = 0 THEN {<<>>}
    ELSE LET shorter == SeqsUpTo(S, n - 1)
         IN  shorter \cup {Append(s, x) : s \in {t \in shorter : Len(t) = n - 1}, x \in S}

RECURSIVE Flatten(_)
Flatten(ss) == IF ss = <<>> THEN <<>> ELSE Head(ss) \o Flatten(Tail(ss))

\* ------------------------------------------------- parsed source documents
\* A subnode of a ContractDefinition as the solidity parser gives it; only
\* the fields the code reads (type, variables[0].name, variables[0].typeName)
\* and the constant marker of the declaration are kept.
ElementaryTypes == {"bool", "uint8", "address", "uint256"}

Decl(name, typeName, isConst) ==
    [type |-> "StateVariableDeclaration", name |-> name,
     typeName |-> typeName, isDeclaredConst |-> isConst]

FunctionNode == [type |-> "FunctionDefinition"]
PragmaNode == [type |-> "PragmaDirective"]

ContractDefinition(subNodes) == [type |-> "ContractDefinition", subNodes |-> subNodes]

VarName(k) == <<"a", "b", "c", "d", "e", "f">>[k]

\* ----------------------------------------------------- dataTypeParser.ts
\* structureToSignatureType is imported from ./dataTypeParser; for an
\* elementary type the canonical signature is the type's own name.
structureToSignatureType(name, typeName, structs) == typeName

\* --------------------------------------------- getStatesFromSourceCode
StateObjectSlotZero(item, slot, structs) ==
    [slot |-> 0,
     type |-> structureToSignatureType(item.name, item.typeName, structs),
     variable |-> item.name]

\* lines 191-199: the callback of states.map((item, slot) => ...)
StateObject(item, slot, structs) ==
    [slot |-> slot,
     type |-> structureToSignatureType(item.name, item.typeName, structs),
     variable |-> item.name]

IsStateVariableDeclaration(n) == n.type = "StateVariableDeclaration"
IsStructDefinition(n) == n.type = "StructDefinition"
IsContractDefinition(n) == n.type = "ContractDefinition"

\* lines 188-199: one iteration of the loop over contractDefinitions; the
\* array index of map is 0-based.
StatesOfContract(contractDefinition) ==
    LET states == SelectSeq(contractDefinition.subNodes, IsStateVariableDeclaration)
        structs == SelectSeq(contractDefinition.subNodes, IsStructDefinition)
    IN  [k \in 1..Len(states) |-> StateObject(states[k], k - 1, structs)]

\* list kept from the call before instead of starting from [].
getStatesFromSourceCodeKeepsList(ast) ==
    LET contractDefinitions == SelectSeq(ast.children, IsContractDefinition)
        list == IF resolved = <<>> THEN <<>> ELSE resolved[Len(resolved)].list
    IN  list \o Flatten([k \in 1..Len(contractDefinitions) |->
                            StatesOfContract(contractDefinitions[k])])

\* lines 185-202: list = list.concat(...) over the contract definitions
getStatesFromSourceCode(ast) ==
    LET contractDefinitions == SelectSeq(ast.children, IsContractDefinition)
    IN  Flatten([k \in 1..Len(contractDefinitions) |->
                    StatesOfContract(contractDefinitions[k])])

\* ------------------------------------------------------ getEventsFromABI
IsEvent(item) == item.type = "event"

RECURSIVE Dedup(_)
Dedup(names) ==
    IF names = <<>> THEN <<>>
    ELSE LET rest == Dedup(SubSeq(names, 1, Len(names) - 1))
             last == names[Len(names)]
         IN  IF \E k \in 1..Len(rest) : rest[k] = last THEN rest ELSE Append(rest, last)

getEventsFromABIDedup(abi) ==
    IF abi.isNull THEN <<>>
    ELSE LET events == SelectSeq(abi.items, IsEvent)
         IN  Dedup([k \in 1..Len(events) |-> events[k].name])

\* lines 205-212
getEventsFromABI(abi) ==
    IF abi.isNull THEN <<>>
    ELSE LET events == SelectSeq(abi.items, IsEvent)
         IN  [k \in 1..Len(events) |-> events[k].name]

getEventsFromABIThrowsOnNull(abi) == abi.isNull

\* lines 206-208: a missing ABI is answered with [] before abi.filter is
\* reached, so getEventsFromABI throws for no ABI document.
getEventsFromABIThrows(abi) == FALSE

\* ------------------------------------------------ the Etherscan responses
AbiEntry(type, name) == [type |-> type, name |-> name]

TransferAbi == <<AbiEntry("event", "Transfer"), AbiEntry("function", "transfer"),
                 AbiEntry("event", "Transfer")>>

\* contract.ABI as Etherscan sends it: an empty string, a text that is not
\* JSON ("Contract source code not verified"), or a JSON array.
OrderedAbi == <<AbiEntry("event", "Approval"), AbiEntry("event", "Transfer")>>

AbiStrings ==
    {[text |-> "empty", doc |-> <<>>], [text |-> "notJson", doc |-> <<>>],
     [text |-> "json", doc |-> <<>>], [text |-> "json", doc |-> TransferAbi],
     [text |-> "json", doc |-> OrderedAbi]}

PackedSource ==
    [parses |-> TRUE,
     children |-> <<PragmaNode,
                    ContractDefinition(<<Decl("a", "uint8", FALSE), FunctionNode,
                                         Decl("b", "uint8", FALSE),
                                         Decl("c", "uint8", FALSE)>>)>>]
UnparsableSource == [parses |-> FALSE, children |-> <<>>]
SourceCodes == {PackedSource, UnparsableSource}

NoRow == [ContractName |-> "", ABI |-> [text |-> "empty", doc |-> <<>>],
          SourceCode |-> UnparsableSource]
ContractRows ==
    {[ContractName |-> "Token", ABI |-> a, SourceCode |-> s] :
        a \in AbiStrings, s \in SourceCodes}

\* What fetch + response.json() give for action=getsourcecode.
SourceCodeResponses ==
    {[kind |-> k, row |-> NoRow] : k \in {"fetchError", "noResult", "emptyResult", "nullRow"}}
    \cup {[kind |-> "row", row |-> r] : r \in ContractRows}

\* What fetch + response.json() give for action=txlist.
TxListResponses ==
    {[kind |-> k, blockNumber |-> 0] : k \in {"fetchError", "noResult", "emptyResult", "nullTx"}}
    \cup {[kind |-> "tx", blockNumber |-> b] : b \in {0, 7}}

ContractDataThrowsOnFetchErrorOnly(resp) == resp.kind = "fetchError"

\* lines 133-155: whether getContractDataFromEtherscan throws, and its value
ContractDataThrows(resp) ==
    \/ resp.kind = "fetchError"                           \* 135, 137
    \/ resp.kind = "noResult"                             \* 139: data.result.length
    \/ resp.kind = "emptyResult"                          \* 140-142
    \/ resp.kind = "nullRow"                              \* 146-148
    \/ resp.kind = "row" /\ resp.row.ABI.text = "notJson" \* 152: JSON.parse

getContractDataFromEtherscan(resp) ==
    [name |-> resp.row.ContractName,
     abi |-> IF resp.row.ABI.text = "empty" THEN NullAbi ELSE Abi(resp.row.ABI.doc),
     sourceCode |-> resp.row.SourceCode]

\* lines 110-131
StartingBlockThrows(resp) ==
    \/ resp.kind = "fetchError"                           \* 112, 113
    \/ resp.kind \in {"noResult", "emptyResult"}          \* 115-117
    \/ resp.kind = "nullTx"                               \* 121-123
    \/ resp.kind = "tx" /\ resp.blockNumber = 0           \* 126-128

getStartingBlockFromEtherscan(resp) == resp.blockNumber

\* ------------------------------------------------------- the repositories
\* EventRepository.add: looks the name up or creates a row; returns its id.
EventRepositoryAdd(store, name) ==
    IF name \in DOMAIN store THEN store
    ELSE store @@ (name :> Cardinality(DOMAIN store) + 1)

\* ContractRepository.add: inserts the row and returns it with its contractId.
ContractRepositoryAdd(store, row) ==
    Append(store, [contractId |-> Len(store) + 1] @@ row)

\* ---------------------------------------------------------- addContracts
NoData == [name |-> "", abi |-> NullAbi, sourceCode |-> UnparsableSource]

\* The batches over two addresses, repeated addresses included; the two
\* addresses are interchangeable, so a batch starts with the first of them.
Batches == {b \in SeqsUpTo({"0xA", "0xB"}, MaxBatch) : b = <<>> \/ b[1] = "0xA"}
ExitCodes == 0..MaxExitCode

Init ==
    /\ addresses \in Batches
    /\ pc = "start"
    /\ i = 1
    /\ success = <<>>
    /\ fail = <<>>
    /\ contractIds = <<>>
    /\ data = NoData
    /\ startingBlock = 0
    /\ stateObjects = <<>>
    /\ eventNames = <<>>
    /\ eventIds = <<>>
    /\ eventStore = <<>>
    /\ contractStore = <<>>
    /\ failedAt = <<>>
    /\ resolved = <<>>
    /\ launches = 0
    /\ spawnArgs = <<>>
    /\ task = "none"
    /\ exitCode = [isNull |-> TRUE, status |-> 0]   \* no 'close' event yet
    /\ future = "none"
    /\ futureValue = [isNull |-> TRUE, status |-> 0]
    /\ logged = 0
    /\ unhandledRejection = FALSE
    /\ uncaughtException = FALSE
    /\ rsource = [children |-> <<>>]
    /\ rlist = <<>>
    /\ rpc = "idle"
    /\ ServerIdle

backfillVars == <<launches, spawnArgs, task, exitCode, future, futureValue,
                  logged, unhandledRejection, uncaughtException>>
storeVars == <<eventStore, contractStore>>
localVars == <<data, startingBlock, stateObjects, eventNames, eventIds>>

\* The for-of loop moves to the next address, or leaves the loop; the
\* block-scoped constants of the iteration go out of scope.
NextAddress ==
    /\ i' = i + 1
    /\ pc' = IF i + 1 > Len(addresses) THEN "dispatch" ELSE "getData"
    /\ data' = NoData
    /\ startingBlock' = 0
    /\ stateObjects' = <<>>
    /\ eventNames' = <<>>
    /\ eventIds' = <<>>

CatchRethrow(stage) ==
    /\ pc' = "rejected"
    /\ failedAt' = Append(failedAt, stage)
    /\ UNCHANGED <<i, fail, localVars, success, contractIds, storeVars, resolved>>

CatchBreak(stage) ==
    /\ fail' = Append(fail, addresses[i])
    /\ failedAt' = Append(failedAt, stage)
    /\ pc' = "dispatch"
    /\ i' = Len(addresses) + 1
    /\ UNCHANGED <<localVars, success, contractIds, storeVars, resolved>>

CatchWithoutPush(stage) ==
    /\ failedAt' = Append(failedAt, stage)
    /\ NextAddress
    /\ UNCHANGED <<fail, success, contractIds, storeVars, resolved>>

\* lines 94-97: catch (e) { console.log(e); fail.push(address); }
Catch(stage) ==
    /\ fail' = Append(fail, addresses[i])
    /\ failedAt' = Append(failedAt, stage)
    /\ NextAddress
    /\ UNCHANGED <<success, contractIds, storeVars, resolved>>

\* lines 59-61: getConnection().getCustomRepository(...), outside the try
GetRepositories ==
    /\ pc = "start"
    /\ \E connected \in BOOLEAN :
          pc' = IF ~connected THEN "rejected"
                ELSE IF Len(addresses) = 0 THEN "dispatch" ELSE "getData"
    /\ UNCHANGED <<addresses, i, success, fail, contractIds, localVars, storeVars,
                   failedAt, resolved, backfillVars, resVars, serverVars>>

\* line 69
GetContractData ==
    /\ pc = "getData"
    /\ \E resp \in SourceCodeResponses :
          IF ContractDataThrows(resp) THEN Catch("getData")
          ELSE /\ data' = getContractDataFromEtherscan(resp)
               /\ pc' = "getBlock"
               /\ UNCHANGED <<i, success, fail, contractIds, startingBlock, stateObjects,
                              eventNames, eventIds, storeVars, failedAt, resolved>>
    /\ UNCHANGED <<addresses, backfillVars, resVars, serverVars>>

\* line 70
GetStartingBlock ==
    /\ pc = "getBlock"
    /\ \E resp \in TxListResponses :
          IF StartingBlockThrows(resp) THEN Catch("getBlock")
          ELSE /\ startingBlock' = getStartingBlockFromEtherscan(resp)
               /\ pc' = "getStates"
               /\ UNCHANGED <<i, success, fail, contractIds, data, stateObjects,
                              eventNames, eventIds, storeVars, failedAt, resolved>>
    /\ UNCHANGED <<addresses, backfillVars, resVars, serverVars>>

\* lines 72-76: parse and resolve the source, then list the ABI's events
GetStates ==
    /\ pc = "getStates"
    /\ IF ~data.sourceCode.parses THEN Catch("getStates")
       ELSE IF getEventsFromABIThrows(data.abi) THEN Catch("getEvents")
       ELSE /\ stateObjects' = getStatesFromSourceCode(data.sourceCode)
            /\ resolved' = Append(resolved, [position |-> i, source |-> data.sourceCode,
                                             list |-> stateObjects'])
            /\ eventIds' = <<>>
            /\ eventNames' = getEventsFromABI(data.abi)
            /\ pc' = "events"
            /\ UNCHANGED <<i, success, fail, contractIds, data, startingBlock,
                           storeVars, failedAt>>
    /\ UNCHANGED <<addresses, backfillVars, resVars, serverVars>>

\* lines 78-81: one iteration of the loop over eventNames
AddEvent ==
    /\ pc = "events"
    /\ Len(eventIds) < Len(eventNames)
    /\ \E ok \in BOOLEAN :
          IF ~ok THEN Catch("addEvent")
          ELSE LET name == eventNames[Len(eventIds) + 1]
                   store == EventRepositoryAdd(eventStore, name)
               IN  /\ eventStore' = store
                   /\ eventIds' = Append(eventIds, store[name])
                   /\ UNCHANGED <<pc, i, success, fail, contractIds, data, startingBlock,
                                  stateObjects, eventNames, contractStore, failedAt, resolved>>
    /\ UNCHANGED <<addresses, backfillVars, resVars, serverVars>>

\* lines 83-90: the row given to contractRepository.add
ContractRow ==
    [address |-> addresses[i], startingBlock |-> startingBlock, name |-> data.name,
     abi |-> data.abi, events |-> eventIds]

AllEventsAddedOrNot == TRUE

\* lines 78-83: contractRepository.add follows the loop over eventNames
AllEventsAdded == Len(eventIds) = Len(eventNames)

UnshiftContractId(ids, contract) == <<contract.contractId>> \o ids

\* line 92: contractIds.push(contract.contractId)
PushContractId(ids, contract) == Append(ids, contract.contractId)

\* lines 83-93
AddContract ==
    /\ pc = "events"
    /\ AllEventsAdded
    /\ \E ok \in BOOLEAN :
          IF ~ok THEN Catch("addContract")
          ELSE LET store == ContractRepositoryAdd(contractStore, ContractRow)
               IN  /\ contractStore' = store
                   /\ contractIds' = PushContractId(contractIds, store[Len(store)])
                   /\ success' = Append(success, addresses[i])
                   /\ failedAt' = Append(failedAt, "none")
                   /\ NextAddress
                   /\ UNCHANGED <<fail, eventStore, resolved>>
    /\ UNCHANGED <<addresses, backfillVars, resVars, serverVars>>

\* line 100: if (contractIds && contractIds.length)
ShouldDispatchAlways(ids) == TRUE

ShouldDispatch(ids) == Len(ids) > 0

\* line 101: this.runBackfillService(contractIds) is a statement of its own;
\* the promise it returns is neither awaited nor given a handler.
BackfillResultObserved == FALSE

\* lines 100-107, with lines 159-160 of runBackfillService: the spawn and
\* the return are one synchronous run, no event is handled in between.
DispatchAndReturn ==
    /\ pc = "dispatch"
    /\ pc' = "returned"
    /\ IF ShouldDispatch(contractIds)
       THEN /\ launches' = launches + 1
            /\ spawnArgs' = contractIds
            /\ task' = "running"
            /\ future' = "pending"
       ELSE UNCHANGED <<launches, spawnArgs, task, future>>
    /\ UNCHANGED <<addresses, i, success, fail, contractIds, localVars, storeVars,
                   failedAt, resolved, exitCode, futureValue, logged, unhandledRejection,
                   uncaughtException, resVars, serverVars>>

\* ---------------------------------------------------- runBackfillService
\* The code of a 'close' event: the exit status, or null after a signal.
ExitStatus(n) == [isNull |-> FALSE, status |-> n]
NullStatus == [isNull |-> TRUE, status |-> 0]

OnCloseMovesToFail(code) ==
    /\ futureValue' = code
    /\ IF ~code.isNull /\ code.status = 0
       THEN /\ future' = "resolved"
            /\ UNCHANGED <<unhandledRejection, success, fail>>
       ELSE /\ future' = "rejected"
            /\ unhandledRejection' = ~BackfillResultObserved
            /\ fail' = fail \o success
            /\ success' = <<>>
    /\ UNCHANGED launches

OnCloseRetries(code) ==
    /\ futureValue' = code
    /\ IF ~code.isNull /\ code.status = 0
       THEN /\ future' = "resolved"
            /\ UNCHANGED <<unhandledRejection, launches>>
       ELSE /\ future' = "rejected"
            /\ unhandledRejection' = ~BackfillResultObserved
            /\ launches' = launches + 1
    /\ UNCHANGED <<success, fail>>

\* lines 170-176: workerProcess.on('close', function (code) {...})
OnClose(code) ==
    /\ futureValue' = code
    /\ IF ~code.isNull /\ code.status = 0
       THEN /\ future' = "resolved"
            /\ UNCHANGED unhandledRejection
       ELSE /\ future' = "rejected"
            /\ unhandledRejection' = ~BackfillResultObserved
    /\ UNCHANGED <<success, fail, launches>>

\* lines 162-168: a chunk of stdout or stderr is logged
OnData ==
    /\ task = "running"
    /\ logged < MaxLog
    /\ logged' = logged + 1
    /\ UNCHANGED <<addresses, pc, i, success, fail, contractIds, localVars, storeVars,
                   failedAt, resolved, launches, spawnArgs, task, exitCode, future, futureValue,
                   unhandledRejection, uncaughtException, resVars, serverVars>>

\* The process exits with a status; 'close' is emitted with it.
TaskExit ==
    /\ task = "running"
    /\ \E n \in ExitCodes :
          /\ task' = "exited"
          /\ exitCode' = ExitStatus(n)
          /\ OnClose(ExitStatus(n))
    /\ UNCHANGED <<addresses, pc, i, contractIds, localVars, storeVars, failedAt, resolved,
                   spawnArgs, logged, uncaughtException, resVars, serverVars>>

\* The process is ended by a signal; 'close' is emitted with code null.
TaskKilled ==
    /\ task = "running"
    /\ task' = "killed"
    /\ exitCode' = NullStatus
    /\ OnClose(NullStatus)
    /\ UNCHANGED <<addresses, pc, i, contractIds, localVars, storeVars, failedAt, resolved,
                   spawnArgs, logged, uncaughtException, resVars, serverVars>>

\* The process could not be started (npx not found): the child emits
\* 'error'.  runBackfillService registers no 'error' listener, so the event
\* is thrown as an uncaught exception and 'close' is never handled.
TaskSpawnError ==
    /\ task = "running"
    /\ logged = 0
    /\ task' = "failedToStart"
    /\ uncaughtException' = TRUE
    /\ UNCHANGED <<addresses, pc, i, success, fail, contractIds, localVars, storeVars,
                   failedAt, resolved, launches, spawnArgs, exitCode, future, futureValue,
                   logged, unhandledRejection, resVars, serverVars>>

Next ==
    \/ GetRepositories
    \/ GetContractData
    \/ GetStartingBlock
    \/ GetStates
    \/ AddEvent
    \/ AddContract
    \/ DispatchAndReturn
    \/ OnData
    \/ TaskExit
    \/ TaskKilled
    \/ TaskSpawnError

Spec == Init /\ [][Next]_vars

\* ------------------------------------------ getStatesFromSourceCode alone
\* The subnodes a bounded source document is made of: a state variable
\* declaration of each elementary type, constant or not, or a function.
NodeKinds ==
    {[fn |-> FALSE, typeName |-> t, isConst |-> c] : t \in ElementaryTypes, c \in BOOLEAN}
    \cup {[fn |-> TRUE, typeName |-> "", isConst |-> FALSE]}

NodeOf(kind, k) ==
    IF kind.fn THEN FunctionNode ELSE Decl(VarName(k), kind.typeName, kind.isConst)

\* The ways to cut n subnodes into m contract definitions, in order.
Cuts(n, m) ==
    {c \in [1..(m + 1) -> 0..n] :
        /\ c[1] = 0
        /\ c[m + 1] = n
        /\ \A j \in 1..m : c[j] <= c[j + 1]}

SourceOf(kinds, c) ==
    LET nodes == [k \in 1..Len(kinds) |-> NodeOf(kinds[k], k)]
    IN  [children |->
            <<PragmaNode>> \o
            [j \in 1..(Len(c) - 1) |->
                ContractDefinition(SubSeq(nodes, c[j] + 1, c[j + 1]))]]

InitResolver ==
    /\ \E n \in 0..MaxDecls, m \in 1..MaxContracts :
          \E c \in Cuts(n, m) :
             \E kinds \in [1..n -> NodeKinds] :
                rsource = SourceOf(kinds, c)
    /\ rlist = <<>>
    /\ rpc = "idle"
    /\ addresses = <<>>
    /\ pc = "start"
    /\ i = 1
    /\ success = <<>>
    /\ fail = <<>>
    /\ contractIds = <<>>
    /\ data = NoData
    /\ startingBlock = 0
    /\ stateObjects = <<>>
    /\ eventNames = <<>>
    /\ eventIds = <<>>
    /\ eventStore = <<>>
    /\ contractStore = <<>>
    /\ failedAt = <<>>
    /\ resolved = <<>>
    /\ launches = 0
    /\ spawnArgs = <<>>
    /\ task = "none"
    /\ exitCode = NullStatus
    /\ future = "none"
    /\ futureValue = NullStatus
    /\ logged = 0
    /\ unhandledRejection = FALSE
    /\ uncaughtException = FALSE
    /\ ServerIdle

\* lines 180-203: one call of getStatesFromSourceCode on the parsed source
ResolveSource ==
    /\ rpc = "idle"
    /\ rlist' = getStatesFromSourceCode(rsource)
    /\ rpc' = "done"
    /\ UNCHANGED <<rsource, orchVars, serverVars>>

NextResolver == ResolveSource

SpecResolver == InitResolver /\ [][NextResolver]_vars

\* ------------------------------------------------------------ server.ts
\* The enable flags the bootstrap reads from env, each set or not set.
Envs ==
    [ENABLE_EVENT_WATCHER : BOOLEAN, ENABLE_HEADER_WATCHER : BOOLEAN,
     HTTP_ENABLE : BOOLEAN, GRAPHQL_SERVER_ENABLE : BOOLEAN]

\* line 10: the bootstrap function is called once at module load.
InitServer ==
    /\ env \in Envs
    /\ mpc = "getConnectionOptions"
    /\ connection = "none"
    /\ cpc = "none"
    /\ receiptCids = FALSE
    /\ headerCids = FALSE
    /\ httpServer = FALSE
    /\ graphqlServer = FALSE
    /\ console = <<>>
    /\ bootstrapRejected = FALSE
    /\ addresses = <<>>
    /\ pc = "start"
    /\ i = 1
    /\ success = <<>>
    /\ fail = <<>>
    /\ contractIds = <<>>
    /\ data = NoData
    /\ startingBlock = 0
    /\ stateObjects = <<>>
    /\ eventNames = <<>>
    /\ eventIds = <<>>
    /\ eventStore = <<>>
    /\ contractStore = <<>>
    /\ failedAt = <<>>
    /\ resolved = <<>>
    /\ launches = 0
    /\ spawnArgs = <<>>
    /\ task = "none"
    /\ exitCode = NullStatus
    /\ future = "none"
    /\ futureValue = NullStatus
    /\ logged = 0
    /\ unhandledRejection = FALSE
    /\ uncaughtException = FALSE
    /\ rsource = [children |-> <<>>]
    /\ rlist = <<>>
    /\ rpc = "idle"

\* line 11: await getConnectionOptions(). The await is in no try block and
\* the promise of the bootstrap has no handler: when typeorm finds no
\* connection options the bootstrap ends here, rejected.
GetConnectionOptions ==
    /\ mpc = "getConnectionOptions"
    /\ \E found \in BOOLEAN :
          IF found
          THEN /\ mpc' = "createConnection"
               /\ UNCHANGED bootstrapRejected
          ELSE /\ mpc' = "rejected"
               /\ bootstrapRejected' = TRUE
    /\ UNCHANGED <<env, connection, cpc, receiptCids, headerCids, httpServer,
                   graphqlServer, console, orchVars, resVars>>

\* lines 12 and 40: createConnection(connectionOptions).then(..).catch(..)
\* registers the callbacks on a pending promise and goes on.
CreateConnection ==
    /\ mpc = "createConnection"
    /\ connection' = "pending"
    /\ mpc' = "graphql"
    /\ UNCHANGED <<env, cpc, receiptCids, headerCids, httpServer, graphqlServer,
                   console, bootstrapRejected, orchVars, resVars>>

\* lines 42-62, run in the same turn as line 12
StartGraphqlServer ==
    /\ mpc = "graphql"
    /\ IF env.GRAPHQL_SERVER_ENABLE
       THEN /\ graphqlServer' = TRUE
            /\ UNCHANGED console
       ELSE /\ console' = Append(console, "Postgraphile server will be not run")
            /\ UNCHANGED graphqlServer
    /\ mpc' = "done"
    /\ UNCHANGED <<env, connection, cpc, receiptCids, headerCids, httpServer,
                   bootstrapRejected, orchVars, resVars>>

\* The promise of createConnection settles; its callbacks run in a later
\* turn than the one that registered them, so after line 62.
ConnectionSettles ==
    /\ connection = "pending"
    /\ mpc = "done"
    /\ \E established \in BOOLEAN :
          IF established
          THEN connection' = "connected" /\ cpc' = "init"
          ELSE connection' = "failed" /\ cpc' = "catch"
    /\ UNCHANGED <<env, mpc, receiptCids, headerCids, httpServer, graphqlServer,
                   console, bootstrapRejected, orchVars, resVars>>

\* lines 13-17: new App(), Store.init(), new GraphqlService()
InitServices ==
    /\ cpc = "init"
    /\ cpc' = "eventWatcher"
    /\ UNCHANGED <<env, mpc, connection, receiptCids, headerCids, httpServer,
                   graphqlServer, console, bootstrapRejected, orchVars, resVars>>

\* lines 19-23
StartEventWatcher ==
    /\ cpc = "eventWatcher"
    /\ IF env.ENABLE_EVENT_WATCHER
       THEN /\ receiptCids' = TRUE
            /\ UNCHANGED console
       ELSE /\ console' = Append(console, "Event watcher is not enabled")
            /\ UNCHANGED receiptCids
    /\ cpc' = "headerWatcher"
    /\ UNCHANGED <<env, mpc, connection, headerCids, httpServer, graphqlServer,
                   bootstrapRejected, orchVars, resVars>>

\* lines 25-31
StartHeaderWatcher ==
    /\ cpc = "headerWatcher"
    /\ IF env.ENABLE_HEADER_WATCHER /\ env.ENABLE_EVENT_WATCHER
       THEN /\ console' = Append(console, "Header watcher will work via Event watcher")
            /\ UNCHANGED headerCids
       ELSE IF env.ENABLE_HEADER_WATCHER /\ ~env.ENABLE_EVENT_WATCHER
            THEN /\ headerCids' = TRUE
                 /\ UNCHANGED console
            ELSE /\ console' = Append(console, "Header watcher is not enabled")
                 /\ UNCHANGED headerCids
    /\ cpc' = "http"
    /\ UNCHANGED <<env, mpc, connection, receiptCids, httpServer, graphqlServer,
                   bootstrapRejected, orchVars, resVars>>

\* lines 33-39
StartHttpServer ==
    /\ cpc = "http"
    /\ IF env.HTTP_ENABLE
       THEN /\ httpServer' = TRUE
            /\ UNCHANGED console
       ELSE /\ console' = Append(console, "Http server will be not run")
            /\ UNCHANGED httpServer
    /\ cpc' = "done"
    /\ UNCHANGED <<env, mpc, connection, receiptCids, headerCids, graphqlServer,
                   bootstrapRejected, orchVars, resVars>>

\* line 40: .catch((error) => console.log('Error: ', error))
CatchConnection ==
    /\ cpc = "catch"
    /\ console' = Append(console, "Error: ")
    /\ cpc' = "done"
    /\ UNCHANGED <<env, mpc, connection, receiptCids, headerCids, httpServer,
                   graphqlServer, bootstrapRejected, orchVars, resVars>>

NextServer ==
    \/ GetConnectionOptions
    \/ CreateConnection
    \/ StartGraphqlServer
    \/ ConnectionSettles
    \/ InitServices
    \/ StartEventWatcher
    \/ StartHeaderWatcher
    \/ StartHttpServer
    \/ CatchConnection

SpecServer == InitServer /\ [][NextServer]_vars

\* ======================================================================
\* Properties of addContracts and runBackfillService (checked under Spec)
\* ======================================================================
Processed == 1..Len(failedAt)
IsAcceptedAt(k) == failedAt[k] = "none"
IsRejectedAt(k) == failedAt[k] # "none"
AcceptedPositions == SelectSeq([k \in Processed |-> k], IsAcceptedAt)
RejectedPositions == SelectSeq([k \in Processed |-> k], IsRejectedAt)
AcceptedAddresses == [j \in 1..Len(AcceptedPositions) |-> addresses[AcceptedPositions[j]]]
RejectedAddresses == [j \in 1..Len(RejectedPositions) |-> addresses[RejectedPositions[j]]]
InLoop == pc \in {"getData", "getBlock", "getStates", "events"}
Terminated == task \in {"exited", "killed", "failedToStart"}

\* C1: a failure at any stage of one address puts that address in fail and
\* the loop goes on: at every point success holds exactly the addresses
\* (by position, in order) whose stages all succeeded and fail exactly those
\* with a failed stage, whatever happened to the other addresses, and the
\* loop is left only after every address of the batch was processed.
C1_FailureIsolation ==
    /\ success = AcceptedAddresses
    /\ fail = RejectedAddresses
    /\ InLoop => Len(failedAt) = i - 1 /\ i <= Len(addresses)
    /\ pc \in {"dispatch", "returned"} => Len(failedAt) = Len(addresses)
    /\ pc = "rejected" => failedAt = <<>>

C1_Witness ==
    /\ pc = "returned"
    /\ failedAt = <<"addEvent", "none", "getData">>
    /\ success = <<addresses[2]>>

FetchStages == {"getData", "getBlock"}
ExactlyOneFetchFailure ==
    /\ Cardinality({k \in Processed : failedAt[k] \in FetchStages}) = 1
    /\ \A k \in Processed : failedAt[k] \in FetchStages \cup {"none"}

\* C2 as stated: with exactly one address failing its fetch and all others
\* succeeding, the result has N-1 entries in success and 1 in fail, and the
\* dispatcher is invoked with exactly N-1 identifiers.
C2_Original ==
    (pc = "returned" /\ ExactlyOneFetchFailure) =>
        /\ Len(success) = Len(addresses) - 1
        /\ Len(fail) = 1
        /\ launches = 1
        /\ Len(spawnArgs) = Len(addresses) - 1

\* C2 amended: as above, except that for N = 1 (no address accepted) the
\* dispatcher is not invoked at all.
C2_Amended ==
    (pc = "returned" /\ ExactlyOneFetchFailure) =>
        /\ Len(success) = Len(addresses) - 1
        /\ Len(fail) = 1
        /\ IF Len(addresses) >= 2
           THEN launches = 1 /\ Len(spawnArgs) = Len(addresses) - 1
           ELSE launches = 0 /\ task = "none"

C2_Witness ==
    /\ pc = "returned"
    /\ ExactlyOneFetchFailure
    /\ Len(addresses) = 3
    /\ Len(spawnArgs) = 2

\* C3: the dispatcher is invoked at most once, only after the last address
\* was accepted or rejected, and if and only if at least one address was
\* accepted; it receives the ids of all accepted contracts and no others.
C3_DispatchOnce ==
    /\ launches <= 1
    /\ launches = 1 => pc = "returned" /\ Len(failedAt) = Len(addresses)
    /\ pc = "returned" => (launches = 1 <=> \E k \in Processed : IsAcceptedAt(k))
    /\ launches = 1 =>
          /\ Len(spawnArgs) = Len(AcceptedPositions)
          /\ spawnArgs = [k \in 1..Len(contractStore) |-> contractStore[k].contractId]
          /\ \A k \in 1..Len(contractStore) :
                contractStore[k].address = AcceptedAddresses[k]

C3_Witness ==
    /\ launches = 1
    /\ Len(spawnArgs) = 2
    /\ Len(fail) = 1

\* C4: addContracts always returns {success, fail} and never rejects,
\* whatever external failure occurs, the failure to obtain the
\* repositories/connection included.
C4_NeverRejects == pc # "rejected"

\* C5: the result is returned while the launched task is still running, and
\* nothing that happens after the return (the task's normal or abnormal
\* termination included) changes success or fail.
C5_ReturnBeforeTaskEnds ==
    [][/\ pc = "returned" => success' = success /\ fail' = fail /\ pc' = "returned"
       /\ (pc # "returned" /\ pc' = "returned" /\ launches' = 1) =>
              task' = "running" /\ future' = "pending"]_vars

C5_Witness ==
    /\ pc = "returned"
    /\ future = "rejected"
    /\ Len(success) = 2
    /\ Len(fail) = 1

\* C6: once the task has terminated the future is settled: resolved iff the
\* exit status is 0, rejected with the status on every abnormal termination
\* (non-zero exit, signal, failure to start), never left pending.
C6_SettlesOnTermination ==
    /\ task = "exited" =>
          /\ future = "resolved" <=> exitCode.status = 0
          /\ exitCode.status # 0 => future = "rejected"
          /\ futureValue = exitCode
    /\ task = "killed" => future = "rejected" /\ futureValue = exitCode
    /\ task = "failedToStart" => future = "rejected"
    /\ Terminated => future # "pending"

\* C7: whenever the backfill future rejects, the rejection is handled by the
\* orchestrator rather than left unobserved.
C7_RejectionObserved == future = "rejected" => ~unhandledRejection

\* ======================================================================
\* Properties of getStatesFromSourceCode (checked under SpecResolver)
\* ======================================================================
\* Byte width of an elementary type in storage.
SizeOf(typeName) ==
    CASE typeName = "bool" -> 1
      [] typeName = "uint8" -> 1
      [] typeName = "address" -> 20
      [] typeName = "uint256" -> 32

ContractDefs == SelectSeq(rsource.children, IsContractDefinition)
StateDecls(j) == SelectSeq(ContractDefs[j].subNodes, IsStateVariableDeclaration)

RECURSIVE SegStart(_)
SegStart(j) == IF j = 1 THEN 0 ELSE SegStart(j - 1) + Len(StateDecls(j - 1))

\* The assignment rlist holds for the k-th state declaration of contract j.
Entry(j, k) == rlist[SegStart(j) + k]

HasOffset(entry, o) == "offset" \in DOMAIN entry /\ entry.offset = o

\* Bytes of slot s the declarations before the k-th of contract j occupy.
RECURSIVE Occupied(_, _, _)
Occupied(j, k, s) ==
    IF k = 1 THEN 0
    ELSE Occupied(j, k - 1, s)
         + (IF Entry(j, k - 1).slot = s THEN SizeOf(StateDecls(j)[k - 1].typeName) ELSE 0)

IsSingleContract(typeNames) ==
    /\ Len(ContractDefs) = 1
    /\ Len(StateDecls(1)) = Len(typeNames)
    /\ \A k \in 1..Len(typeNames) :
          /\ StateDecls(1)[k].typeName = typeNames[k]
          /\ ~StateDecls(1)[k].isDeclaredConst

\* C8 (packing, fitting case): when the first two state variables of a
\* contract are elementary, of widths w1 and w2 with w1 + w2 <= 32, both are
\* assigned the same slot, at offsets 0 and w1; and [uint8 a; uint8 b;
\* uint8 c] are all assigned slot 0, at offsets 0, 1 and 2.
C8_PackingFits ==
    rpc = "done" =>
        /\ \A j \in 1..Len(ContractDefs) :
              LET d == StateDecls(j)
              IN  (/\ Len(d) >= 2
                   /\ ~d[1].isDeclaredConst
                   /\ ~d[2].isDeclaredConst
                   /\ SizeOf(d[1].typeName) + SizeOf(d[2].typeName) <= 32) =>
                      /\ Entry(j, 1).slot = Entry(j, 2).slot
                      /\ HasOffset(Entry(j, 1), 0)
                      /\ HasOffset(Entry(j, 2), SizeOf(d[1].typeName))
        /\ IsSingleContract(<<"uint8", "uint8", "uint8">>) =>
              \A k \in 1..3 : rlist[k].slot = 0 /\ HasOffset(rlist[k], k - 1)

IsStored(n) == ~(IsStateVariableDeclaration(n) /\ n.isDeclaredConst)
StripConstants(ast) ==
    [children |->
        [c \in 1..Len(ast.children) |->
            IF IsContractDefinition(ast.children[c])
            THEN ContractDefinition(SelectSeq(ast.children[c].subNodes, IsStored))
            ELSE ast.children[c]]]

ConstantNames ==
    {StateDecls(j)[k].name : <<j, k>> \in
        UNION {{<<jj, kk>> : kk \in {x \in 1..Len(StateDecls(jj)) :
                                       StateDecls(jj)[x].isDeclaredConst}} :
                   jj \in 1..Len(ContractDefs)}}

IsNotConstantEntry(entry) == entry.variable \notin ConstantNames

\* C10: a constant declaration receives no slot and consumes none: the
\* assignments are those the resolver gives for the source with the constant
\* declarations removed.
C10_ConstantsTakeNoSlot ==
    rpc = "done" =>
        /\ \A k \in 1..Len(rlist) : IsNotConstantEntry(rlist[k])
        /\ SelectSeq(rlist, IsNotConstantEntry) = getStatesFromSourceCode(StripConstants(rsource))

\* The bytes of its slot an assignment occupies: from its offset (0 when the
\* record carries none) over the width of its type.
EntryOffset(entry) == IF "offset" \in DOMAIN entry THEN entry.offset ELSE 0
EntryBytes(entry) == EntryOffset(entry)..(EntryOffset(entry) + SizeOf(entry.type) - 1)

\* C11 (no overlap): in the list returned for one source document, a source
\* with several contract definitions included, any two assignments occupy
\* disjoint (slot, byte range) pairs.
C11_NoOverlap ==
    rpc = "done" =>
        \A p \in 1..Len(rlist) : \A q \in 1..Len(rlist) :
            (p # q /\ rlist[p].slot = rlist[q].slot) =>
                EntryBytes(rlist[p]) \cap EntryBytes(rlist[q]) = {}

\* ======================================================================
\* Properties of the persisted rows and of the loop (checked under Spec)
\* ======================================================================
\* The list the resolver computed for the address at a position.
ResolvedAt(position) ==
    (CHOOSE r \in {resolved[k] : k \in 1..Len(resolved)} : r.position = position).list

\* A row carries the slot assignments when one of its fields holds the list.
CarriesStates(row, list) ==
    \E field \in {"states", "slots"} \cap DOMAIN row : row[field] = list

\* C12: the row persisted for an accepted address references both the
\* resolved slot assignments and the event ids: it carries the ordered list
\* the resolver computed for that address.
C12_RowCarriesStates ==
    \A k \in 1..Len(contractStore) :
        /\ "events" \in DOMAIN contractStore[k]
        /\ CarriesStates(contractStore[k], ResolvedAt(AcceptedPositions[k]))

\* The names of the ABI's entries of kind "event", in ABI order.
RECURSIVE EventEntryNames(_)
EventEntryNames(items) ==
    IF items = <<>> THEN <<>>
    ELSE (IF Head(items).type = "event" THEN <<Head(items).name>> ELSE <<>>)
         \o EventEntryNames(Tail(items))

\* The registry holds the name under this id.
IdOfName(name, id) == name \in DOMAIN eventStore /\ eventStore[name] = id

\* C13: the event-id list of an address has one id per ABI entry of kind
\* "event", in ABI order, duplicates kept: the ids being built and the ids of
\* every persisted row are the registry's ids of the event names in order,
\* and an ABI with two "Transfer" events yields two equal ids.
C13_EventIdsFollowAbi ==
    /\ pc = "events" =>
          /\ eventNames = EventEntryNames(data.abi.items)
          /\ Len(eventIds) <= Len(eventNames)
          /\ \A j \in 1..Len(eventIds) : IdOfName(eventNames[j], eventIds[j])
    /\ \A k \in 1..Len(contractStore) :
          LET row == contractStore[k]
              names == EventEntryNames(row.abi.items)
          IN  /\ Len(row.events) = Len(names)
              /\ \A j \in 1..Len(names) : IdOfName(names[j], row.events[j])
              /\ row.abi.items = TransferAbi =>
                    Len(row.events) = 2 /\ row.events[1] = row.events[2]

C13_Witness ==
    \E k \in 1..Len(contractStore) : \E l \in 1..Len(contractStore) :
        /\ contractStore[k].abi.items = TransferAbi
        /\ Len(contractStore[k].events) = 2
        /\ contractStore[k].events[1] = contractStore[k].events[2]
        /\ contractStore[l].abi.items = OrderedAbi
        /\ contractStore[l].events[1] # contractStore[l].events[2]

IsEmptyAbi(abi) == abi.isNull \/ abi.items = <<>>

\* C14: an empty or missing ABI yields an empty event list and is no error:
\* listing its events does not fail, no event-registry write is made for
\* the address, only the contract write can still reject it, and the row
\* written for it has an empty events list.
C14_EmptyAbiIsNoError ==
    [][/\ (pc = "getStates" /\ IsEmptyAbi(data.abi) /\ data.sourceCode.parses) =>
             /\ pc' = "events"
             /\ eventNames' = <<>>
             /\ failedAt' = failedAt
       /\ (pc = "events" /\ IsEmptyAbi(data.abi)) =>
             /\ DOMAIN eventStore' = DOMAIN eventStore
             /\ failedAt'[Len(failedAt')] \in {"none", "addContract"}
             /\ Len(contractStore') > Len(contractStore) =>
                   /\ contractStore'[Len(contractStore')].events = <<>>
                   /\ success' = Append(success, addresses[i])]_vars

C14_Witness ==
    /\ pc = "returned"
    /\ Len(success) = 2
    /\ contractStore[1].abi.isNull
    /\ ~contractStore[2].abi.isNull
    /\ contractStore[2].abi.items = <<>>
    /\ contractStore[1].events = <<>>
    /\ contractStore[2].events = <<>>
    /\ DOMAIN eventStore = {}

C16_StrictlySequential ==
    [][InLoop =>
          /\ Len(success) + Len(fail) = i - 1
          /\ \A k \in 1..Len(resolved) : resolved[k].position <= i
          /\ \/ i' = i /\ InLoop' /\ Len(success') + Len(fail') = i - 1
             \/ i' = i + 1 /\ Len(success') + Len(fail') = i
                /\ data' = NoData /\ eventNames' = <<>>]_vars

C16_Witness ==
    /\ pc = "events"
    /\ i = 3
    /\ Len(success) = 1
    /\ Len(fail) = 1
    /\ Len(eventIds) = 1

Fetched == data # NoData /\ data.name # ""
Resolved == \E k \in 1..Len(resolved) : resolved[k].position = i
StoresChange ==
    DOMAIN eventStore' # DOMAIN eventStore \/ Len(contractStore') # Len(contractStore)
LoopExit == IF i = Len(addresses) THEN "dispatch" ELSE "getData"

\* C17: an address passes its stages in the order fetching (metadata, then
\* starting block), parsing/resolving, persisting: a stage is entered only
\* from the one before it, a write to the event registry or the contract
\* store happens only in the persisting stage of an address whose metadata
\* was fetched and whose source was resolved, and a rejection in an earlier
\* stage leaves both stores as they were.
C17_StageOrder ==
    [][/\ pc = "getData" => pc' \in {"getBlock", LoopExit}
       /\ pc = "getBlock" => Fetched /\ pc' \in {"getStates", LoopExit}
       /\ pc = "getStates" => Fetched /\ startingBlock # 0 /\ pc' \in {"events", LoopExit}
       /\ pc = "events" => Fetched /\ startingBlock # 0 /\ Resolved /\ pc' \in {"events", LoopExit}
       /\ StoresChange => pc = "events"
       /\ (Len(failedAt') > Len(failedAt)
           /\ failedAt'[Len(failedAt')] \in {"getData", "getBlock", "getStates"}) =>
              ~StoresChange /\ pc # "events"]_vars

C17_Witness ==
    /\ pc = "returned"
    /\ failedAt = <<"getData", "getStates", "none">>
    /\ Len(contractStore) = 1
    /\ contractStore[1].address = addresses[3]
    /\ DOMAIN eventStore = {"Approval", "Transfer"}

\* C18: one process is launched per invocation of the dispatcher and none
\* is launched again: the only launch is the one addContracts makes when it
\* dispatches, and once the task has terminated, abnormally included, no
\* further process is launched and the task stays terminated.
C18_NoRetry ==
    [][/\ launches' # launches =>
             /\ pc = "dispatch"
             /\ task = "none"
             /\ launches' = launches + 1
             /\ task' = "running"
       /\ Terminated => launches' = launches /\ task' = task]_vars

C18_Witness ==
    /\ task = "exited"
    /\ exitCode.status # 0
    /\ future = "rejected"
    /\ launches = 1

\* C19: the accepted contract ids and success stay aligned: they have the
\* same length, the k-th id is the id the contract store returned for the
\* k-th address of success, success and fail together hold every processed
\* input position exactly once in input order (every position once the loop
\* is left), and the ids are handed to the backfill task in that order.
C19_IdsAlignedWithSuccess ==
    /\ Len(contractIds) = Len(success)
    /\ Len(contractStore) = Len(success)
    /\ \A k \in 1..Len(contractIds) :
          /\ contractStore[k].contractId = contractIds[k]
          /\ contractStore[k].address = success[k]
          /\ success[k] = addresses[AcceptedPositions[k]]
    /\ Len(fail) = Len(RejectedPositions)
    /\ \A k \in 1..Len(fail) : fail[k] = addresses[RejectedPositions[k]]
    /\ Len(success) + Len(fail) = Len(failedAt)
    /\ pc = "returned" => Len(success) + Len(fail) = Len(addresses)
    /\ launches = 1 => spawnArgs = contractIds

C19_Witness ==
    /\ pc = "returned"
    /\ failedAt = <<"none", "getBlock", "none">>
    /\ contractIds = <<1, 2>>
    /\ spawnArgs = <<1, 2>>
    /\ success = <<"0xA", "0xB">>

\* C20: the contract row of an address is written at most once, and only
\* after every event name of its ABI was given an id by the registry; when
\* an event-registry call fails no row is written for the address, the
\* address is put in fail and no id of it is kept for the dispatcher.
C20_ContractAfterEvents ==
    [][/\ Len(contractStore) = Len(AcceptedPositions)
       /\ Len(contractStore') # Len(contractStore) =>
             /\ Len(contractStore') = Len(contractStore) + 1
             /\ pc = "events"
             /\ Len(eventIds) = Len(EventEntryNames(data.abi.items))
             /\ \A j \in 1..Len(eventIds) : IdOfName(eventNames[j], eventIds[j])
             /\ contractStore'[Len(contractStore')].address = addresses[i]
             /\ contractStore'[Len(contractStore')].events = eventIds
             /\ failedAt' = Append(failedAt, "none")
             /\ i' = i + 1
       /\ (Len(failedAt') > Len(failedAt) /\ failedAt'[Len(failedAt')] = "addEvent") =>
             /\ contractStore' = contractStore
             /\ contractIds' = contractIds
             /\ fail' = Append(fail, addresses[i])
             /\ i' = i + 1
       /\ launches = 1 => Len(spawnArgs) = Len(AcceptedPositions)]_vars

C20_Witness ==
    /\ pc = "returned"
    /\ failedAt = <<"addEvent", "none">>
    /\ DOMAIN eventStore = {"Approval", "Transfer"}
    /\ Len(contractStore) = 1
    /\ contractStore[1].abi.items = OrderedAbi
    /\ fail = <<addresses[1]>>
    /\ spawnArgs = <<contractStore[1].contractId>>

\* ---------------------------------------------------------------- C21
\* The bootstrap has nothing left to run: its function returned or rejected
\* and the callbacks on the connection promise, if registered, have run.
BootstrapSettled ==
    /\ mpc \in {"done", "rejected"}
    /\ connection = "none" \/ cpc = "done"

ConnectionEstablished == connection = "connected"

\* The part of C21 about the subscriptions and the HTTP server: the two
\* subscriptions are never both started, nothing of the three is started
\* unless the database connection was established, and once the callback
\* has run on an established connection the receipt subscription is started
\* iff ENABLE_EVENT_WATCHER is set, the header subscription iff
\* ENABLE_HEADER_WATCHER is set and ENABLE_EVENT_WATCHER is not.
SubscriptionsFollowFlags ==
    /\ ~(receiptCids /\ headerCids)
    /\ (receiptCids \/ headerCids \/ httpServer) => ConnectionEstablished
    /\ (BootstrapSettled /\ ConnectionEstablished) =>
          /\ receiptCids <=> env.ENABLE_EVENT_WATCHER
          /\ headerCids <=> (env.ENABLE_HEADER_WATCHER /\ ~env.ENABLE_EVENT_WATCHER)

\* The part of C21 about the GraphQL server: once the bootstrap has nothing
\* left to run, the server is started iff GRAPHQL_SERVER_ENABLE is set,
\* whatever became of the database connection.
GraphqlFollowsFlagOnly ==
    BootstrapSettled => (graphqlServer <=> env.GRAPHQL_SERVER_ENABLE)

\* C21: at server start-up the receipt subscription and the header
\* subscription are never both started; the receipt subscription is started
\* iff ENABLE_EVENT_WATCHER is set, the header subscription iff
\* ENABLE_HEADER_WATCHER is set and ENABLE_EVENT_WATCHER is not; neither
\* subscription nor the HTTP server is started unless the database
\* connection was established; the GraphQL server start depends only on
\* GRAPHQL_SERVER_ENABLE.
C21_StartsFollowFlags ==
    /\ SubscriptionsFollowFlags
    /\ GraphqlFollowsFlagOnly

\* A start-up on which both watchers are enabled and the connection was
\* established: only the receipt subscription runs.
BothWatchersEnabledSettled ==
    /\ BootstrapSettled
    /\ ConnectionEstablished
    /\ env.ENABLE_EVENT_WATCHER /\ env.ENABLE_HEADER_WATCHER
    /\ receiptCids /\ ~headerCids

\* A start-up on which the connection failed and the GraphQL server runs.
GraphqlWithoutConnection ==
    /\ BootstrapSettled
    /\ connection = "failed"
    /\ graphqlServer
    /\ ~httpServer

====
